---------------------------- MODULE Spec2Model ----------------------------
(***************************************************************************)
(* Model of the two analysis scripts of stock-trading-calculations:        *)
(*   analyze-exchange-rate.py                    (unconditional variant)   *)
(*   analyze-upward-threshold-with-condition.py  (conditional variant)     *)
(*                                                                         *)
(* A bar is [date, close]: the calendar date of its timestamp and its      *)
(* closing price; the order of the bars in the series is their time order. *)
(* Prices are small integers and a multiplier is an integer number of      *)
(* hundredths (0.01 is 1, 2.0 is 200).  The standard deviation is kept     *)
(* exactly, as the pair [v, n] that stands for sqrt(v)/n, and every        *)
(* comparison with it is done on squares, so no rounding enters the model. *)
(* A percentage is the exact fraction [num, den].                          *)
(***************************************************************************)
EXTENDS Integers, Sequences, FiniteSets, TLC

VARIABLES
    variant,           \* which script runs: "unconditional" or "conditional"
    pc,                \* position of the control flow
    err,               \* the exception raised, "" when none
    data,              \* the loaded series
    daily_groups,      \* dict date -> day_data, as a sequence in key order
    multipliers,       \* the part of the configured list the loop has read
    mult_i,            \* position of `for mult in multipliers`
    analysis_results,  \* `results` of run_threshold_analysis (a dict)
    overall_stdev,     \* np.std(all_prices)
    sim,               \* `for sim in range(num_simulations)`
    count,
    total_days,
    results,           \* `results` of calculate_threshold_crossing (a list)
    good_trade_count,
    bad_trade_count,
    no_action_count,
    trials,            \* per day, the locals of its trial in the latest run
    calls              \* the calls of calculate_threshold_crossing made so far

vars == <<variant, pc, err, data, daily_groups, multipliers, mult_i,
          analysis_results, overall_stdev, sim, count, total_days,
          results, good_trade_count, bad_trade_count, no_action_count,
          trials, calls>>

---------------------------------------------------------------------------
(* Bounds of the model *)

MaxBars == 4
NumSimulations == 2
MaxMults == 2

Dates == {1, 2}
Closes == {1, 2, 3}
MultChoices == {0, 200}

Bar == [date : Dates, close : Closes]

\* Series: strictly increasing timestamps, so the dates never decrease.
ChronoSeries ==
    UNION { { s \in [1..n -> Bar] :
                \A i \in 1..(n - 1) : s[i].date <= s[i + 1].date } : n \in 0..MaxBars }

---------------------------------------------------------------------------
(* Helpers *)

RECURSIVE SortedSeq(_)
SortedSeq(S) ==
    IF S = {} THEN <<>>
    ELSE LET m == CHOOSE x \in S : \A y \in S : x <= y
         IN <<m>> \o SortedSeq(S \ {m})

RECURSIVE Sum(_)
Sum(xs) == IF xs = <<>> THEN 0 ELSE Head(xs) + Sum(Tail(xs))

RECURSIVE SumSq(_)
SumSq(xs) == IF xs = <<>> THEN 0 ELSE Head(xs) * Head(xs) + SumSq(Tail(xs))

RECURSIVE Flatten(_)
Flatten(ss) == IF ss = <<>> THEN <<>> ELSE Head(ss) \o Flatten(Tail(ss))

RECURSIVE Gcd(_, _)
Gcd(a, b) == IF b = 0 THEN a ELSE Gcd(b, a % b)

\* The value of num / den for num >= 0, den > 0, as a fraction in lowest
\* terms: two quotients are the same float exactly when they are the same
\* fraction here.
Fraction(num, den) ==
    LET g == Gcd(num, den) IN [num |-> num \div g, den |-> den \div g]

CloseColumn(day_data) == [i \in 1..Len(day_data) |-> day_data[i].close]

---------------------------------------------------------------------------
(* group_by_trading_day *)

\* Faulty variant: each group reduced to its first row (groupby(...).first()).
group_by_trading_day_first_row(series) ==
    LET keys == SortedSeq({ series[i].date : i \in DOMAIN series })
    IN  [k \in 1..Len(keys) |->
            [date |-> keys[k],
             day_data |-> <<(SelectSeq(series, LAMBDA b : b.date = keys[k]))[1]>>]]

\* groupby(data.index.date): one group per distinct date, keys sorted, the rows
\* of a group in their original order; dict(tuple(...)) keeps that key order.
group_by_trading_day(series) ==
    LET keys == SortedSeq({ series[i].date : i \in DOMAIN series })
    IN  [k \in 1..Len(keys) |->
            [date |-> keys[k],
             day_data |-> SelectSeq(series, LAMBDA b : b.date = keys[k])]]

---------------------------------------------------------------------------
(* calculate_threshold_crossing: the pure parts *)

\* np.std(all_prices), population form: sqrt(n*sum(x^2) - sum(x)^2) / n.
\* n = 0 is numpy's nan.
NpStd(all_prices) ==
    LET n == Len(all_prices)
    IN  [v |-> n * SumSq(all_prices) - Sum(all_prices) * Sum(all_prices), n |-> n]

AllPrices(groups) ==
    Flatten([k \in 1..Len(groups) |-> CloseColumn(groups[k].day_data)])

\* Faulty variant: high inclusive, as random.randint(low, high) is.
RandintInclusive(low, high) == low..high

\* np.random.randint(low, high): low inclusive, high exclusive.
Randint(low, high) == low..(high - 1)

\* Faulty variant: the threshold of the docstring,
\* price > first_half_price - multiplier * overall_stdev.
AboveThresholdMinus(price, first_half_price, multiplier, stdev) ==
    LET a == 100 * stdev.n * (first_half_price - price)
    IN  /\ stdev.n > 0
        /\ (a < 0 \/ a * a < multiplier * multiplier * stdev.v)

\* price > first_half_price + multiplier * overall_stdev, multiplier >= 0 in
\* hundredths:  100 * n * (price - first_half_price) > multiplier * sqrt(v).
\* With a nan deviation the comparison is False, as in IEEE arithmetic.
AboveThreshold(price, first_half_price, multiplier, stdev) ==
    LET a == 100 * stdev.n * (price - first_half_price)
    IN  /\ a > 0
        /\ a * a > multiplier * multiplier * stdev.v

\* Faulty variant: the second half of the day, iloc[mid_point:].
RemainingPricesFromMid(closes, first_half_idx) ==
    SubSeq(closes, (Len(closes) \div 2) + 1, Len(closes))

\* day_data['Close'].iloc[first_half_idx + 1:]
RemainingPrices(closes, first_half_idx) ==
    SubSeq(closes, first_half_idx + 2, Len(closes))

\* any(price > threshold for price in remaining_prices)
RECURSIVE AnyAbove(_, _, _, _)
AnyAbove(prices, first_half_price, multiplier, stdev) ==
    IF prices = <<>> THEN FALSE
    ELSE \/ AboveThreshold(Head(prices), first_half_price, multiplier, stdev)
         \/ AnyAbove(Tail(prices), first_half_price, multiplier, stdev)

\* Faulty variant: the final else branch is missing.
ClassifyNoElse(first_half_price, start_day_price, crossed) ==
    IF first_half_price > start_day_price THEN "skipped"
    ELSE IF crossed THEN "good"
    ELSE "none"

\* Faulty variant: the crossing test comes before the start-of-day test.
ClassifyAfterCrossing(first_half_price, start_day_price, crossed) ==
    IF crossed THEN "good"
    ELSE IF first_half_price > start_day_price THEN "skipped"
    ELSE "bad"

\* The if / elif / else of the conditional script.
Classify(first_half_price, start_day_price, crossed) ==
    IF first_half_price > start_day_price THEN "skipped"
    ELSE IF crossed THEN "good"
    ELSE "bad"

\* A day the loop passes over: len(day_data) <= 1.
NoTrial ==
    [first_half_idx |-> -1, first_half_price |-> 0, start_day_price |-> 0,
     remaining_prices |-> <<>>, crossed |-> FALSE, cls |-> "none"]

\* The body of the day loop for one day with the drawn first_half_idx.
TrialOf(day_data, first_half_idx, multiplier, stdev, script) ==
    IF ~(Len(day_data) > 1) THEN NoTrial
    ELSE LET closes == CloseColumn(day_data)
             first_half_price == closes[first_half_idx + 1]
             start_day_price == closes[1]
             remaining_prices == RemainingPrices(closes, first_half_idx)
             crossed == AnyAbove(remaining_prices, first_half_price,
                                 multiplier, stdev)
         IN  [first_half_idx |-> first_half_idx,
              first_half_price |-> first_half_price,
              start_day_price |-> start_day_price,
              remaining_prices |-> remaining_prices,
              crossed |-> crossed,
              cls |-> IF script = "conditional"
                      THEN Classify(first_half_price, start_day_price, crossed)
                      ELSE "none"]

\* What np.random.randint(0, mid_point) can return over one pass of the day
\* loop: one value per day with more than one bar (-1 marks no draw).
DrawVectors(groups) ==
    { idx \in [1..Len(groups) -> -1..(MaxBars \div 2)] :
        \A k \in 1..Len(groups) :
            IF Len(groups[k].day_data) > 1
            THEN idx[k] \in Randint(0, Len(groups[k].day_data) \div 2)
            ELSE idx[k] = -1 }

\* The number of `+= 1` a pass of the day loop makes on a counter.
Increments(hits) == Sum([k \in 1..Len(hits) |-> IF hits[k] THEN 1 ELSE 0])

\* (count / total_days) * 100
RunPercentage(cnt, total) == Fraction(cnt * 100, total)

\* np.mean(results) of a non-empty list: sum(results) / len(results).
RECURSIVE Lcm(_)
Lcm(dens) ==
    IF dens = <<>> THEN 1
    ELSE LET rest == Lcm(Tail(dens))
         IN  (Head(dens) * rest) \div Gcd(Head(dens), rest)

NpMean(rs) ==
    LET d == Lcm([i \in 1..Len(rs) |-> rs[i].den])
    IN  Fraction(Sum([i \in 1..Len(rs) |-> rs[i].num * (d \div rs[i].den)]),
                 d * Len(rs))

\* good_trade_count / (good_trade_count + bad_trade_count) * 100
GoodPct(good, bad) == Fraction(good * 100, good + bad)

---------------------------------------------------------------------------
(* run_threshold_analysis: the dict `results` *)

DictKeys(d) == [i \in 1..Len(d) |-> d[i].key]

DictHas(d, k) == \E i \in 1..Len(d) : d[i].key = k

\* Faulty variant: results.setdefault(mult, percentage).
DictSetKeepFirst(d, k, val) ==
    IF DictHas(d, k) THEN d
    ELSE Append(d, [key |-> k, value |-> val])

\* results[mult] = percentage
DictSet(d, k, val) ==
    IF DictHas(d, k)
    THEN [i \in 1..Len(d) |-> IF d[i].key = k THEN [key |-> k, value |-> val] ELSE d[i]]
    ELSE Append(d, [key |-> k, value |-> val])

---------------------------------------------------------------------------
(* State machine *)

Nan == [num |-> 0, den |-> 0]

NoStdev == [v |-> 0, n |-> 0]

\* Either main() is about to download the series, or the functions are
\* called on a series the caller supplies (any chronological series, the
\* empty one included), starting with group_by_trading_day.
Init ==
    /\ variant \in {"unconditional", "conditional"}
    /\ multipliers = <<>>
    /\ \/ pc = "main" /\ data = <<>>
       \/ pc = "group" /\ data \in ChronoSeries
    /\ err = ""
    /\ daily_groups = <<>>
    /\ mult_i = 1
    /\ analysis_results = <<>>
    /\ overall_stdev = NoStdev
    /\ sim = 0
    /\ count = 0
    /\ total_days = 0
    /\ results = <<>>
    /\ good_trade_count = 0
    /\ bad_trade_count = 0
    /\ no_action_count = 0
    /\ trials = <<>>
    /\ calls = <<>>

\* main(): data = download_forex_data(); an empty download raises.
download_forex_data ==
    /\ pc = "main"
    /\ \E downloaded \in ChronoSeries :
          IF downloaded = <<>>
          THEN /\ pc' = "raised"
               /\ err' = "No data downloaded"
               /\ data' = data
          ELSE /\ pc' = "group"
               /\ err' = err
               /\ data' = downloaded
    /\ UNCHANGED <<variant, daily_groups, multipliers, mult_i, analysis_results,
                   overall_stdev, sim, count, total_days, results,
                   good_trade_count, bad_trade_count, no_action_count, trials,
                   calls>>

\* daily_groups = group_by_trading_day(data)
GroupByTradingDay ==
    /\ pc = "group"
    /\ daily_groups' = group_by_trading_day(data)
    /\ pc' = "for_mult"
    /\ UNCHANGED <<variant, err, data, multipliers, mult_i, analysis_results,
                   overall_stdev, sim, count, total_days, results,
                   good_trade_count, bad_trade_count, no_action_count, trials,
                   calls>>

\* `for mult in multipliers:` takes the next element and calls
\* calculate_threshold_crossing(daily_groups, mult), which runs up to its loop.
\* The loop reads the configured list front to back and nothing else reads
\* it, so the model draws each element when the loop reaches it: the list is
\* any sequence over MultChoices of at most MaxMults elements.
CallCalculateThresholdCrossing ==
    /\ pc = "for_mult"
    /\ Len(multipliers) < MaxMults
    /\ \E mult \in MultChoices :
          /\ multipliers' = Append(multipliers, mult)
          /\ calls' = Append(calls, [multiplier |-> mult,
                                     returned |-> FALSE, value |-> Nan])
    /\ overall_stdev' = NpStd(AllPrices(daily_groups))
    /\ results' = <<>>
    /\ good_trade_count' = 0
    /\ bad_trade_count' = 0
    /\ no_action_count' = 0
    /\ sim' = 0
    /\ pc' = "for_sim"
    /\ UNCHANGED <<variant, err, data, daily_groups, mult_i,
                   analysis_results, count, total_days, trials>>

\* `for mult in multipliers:` is exhausted: return results
ReturnAnalysisResults ==
    /\ pc = "for_mult"
    /\ mult_i > Len(multipliers)
    /\ pc' = "done"
    /\ UNCHANGED <<variant, err, data, daily_groups, multipliers, mult_i,
                   analysis_results, overall_stdev, sim, count,
                   total_days, results, good_trade_count, bad_trade_count,
                   no_action_count, trials, calls>>

\* One iteration of `for sim in range(num_simulations):`, a simulation run:
\* count = 0, total_days = len(daily_groups), the loop over the days with one
\* draw per day of more than one bar, and
\* results.append((count / total_days) * 100).
SimulationRun ==
    /\ pc = "for_sim"
    /\ sim < NumSimulations
    /\ total_days' = Len(daily_groups)
    /\ \E idx \in DrawVectors(daily_groups) :
          LET ts == [k \in 1..Len(daily_groups) |->
                        TrialOf(daily_groups[k].day_data, idx[k],
                                multipliers[mult_i], overall_stdev, variant)]
              crossed == [k \in 1..Len(ts) |-> ts[k].crossed]
              skipped == [k \in 1..Len(ts) |-> ts[k].cls = "skipped"]
              good == [k \in 1..Len(ts) |-> ts[k].cls = "good"]
              bad == [k \in 1..Len(ts) |-> ts[k].cls = "bad"]
          IN  /\ trials' = ts
              /\ count' = Increments(crossed)
              /\ no_action_count' = no_action_count + Increments(skipped)
              /\ good_trade_count' = good_trade_count + Increments(good)
              /\ bad_trade_count' = bad_trade_count + Increments(bad)
    /\ IF total_days' = 0
       THEN /\ pc' = "raised"
            /\ err' = "ZeroDivisionError"
            /\ UNCHANGED <<results, sim>>
       ELSE /\ results' = Append(results, RunPercentage(count', total_days'))
            /\ sim' = sim + 1
            /\ UNCHANGED <<pc, err>>
    /\ UNCHANGED <<variant, data, daily_groups, multipliers, mult_i,
                   analysis_results, overall_stdev, calls>>

\* The simulation loop is exhausted: calculate_threshold_crossing returns and
\* run_threshold_analysis stores results[mult] = percentage.
ReturnPercentage ==
    /\ pc = "for_sim"
    /\ sim = NumSimulations
    /\ IF variant = "conditional" /\ good_trade_count + bad_trade_count = 0
       THEN /\ pc' = "raised"
            /\ err' = "ZeroDivisionError"
            /\ UNCHANGED <<analysis_results, mult_i, calls, overall_stdev, sim,
                           count, total_days, results, good_trade_count,
                           bad_trade_count, no_action_count, trials>>
       ELSE LET percentage == IF variant = "conditional"
                              THEN GoodPct(good_trade_count, bad_trade_count)
                              ELSE NpMean(results)
            IN  /\ analysis_results' =
                       DictSet(analysis_results, multipliers[mult_i], percentage)
                /\ calls' = [calls EXCEPT ![Len(calls)] =
                                [multiplier |-> multipliers[mult_i],
                                 returned |-> TRUE, value |-> percentage]]
                /\ mult_i' = mult_i + 1
                /\ pc' = "for_mult"
                /\ err' = err
                \* the frame of calculate_threshold_crossing is gone
                /\ overall_stdev' = NoStdev
                /\ sim' = 0
                /\ count' = 0
                /\ total_days' = 0
                /\ results' = <<>>
                /\ good_trade_count' = 0
                /\ bad_trade_count' = 0
                /\ no_action_count' = 0
                /\ trials' = <<>>
    /\ UNCHANGED <<variant, data, daily_groups, multipliers>>

Next ==
    \/ download_forex_data
    \/ GroupByTradingDay
    \/ CallCalculateThresholdCrossing
    \/ ReturnAnalysisResults
    \/ SimulationRun
    \/ ReturnPercentage

Spec == Init /\ [][Next]_vars

---------------------------------------------------------------------------
(* Vocabulary of the properties *)

Eligible(k) == Len(daily_groups[k].day_data) >= 2

EligibleDays == Cardinality({ k \in 1..Len(daily_groups) : Eligible(k) })

\* A simulation run of the current call has just appended its percentage.
AfterRun == pc = "for_sim" /\ sim >= 1

\* The days of the latest run that had a trial.
TriedDays == { k \in 1..Len(trials) : trials[k].first_half_idx >= 0 }

DayCloses(k) == CloseColumn(daily_groups[k].day_data)

\* close > reference + m * s, written out for s = sqrt(s.v) / s.n
Exceeds(close, reference, m, s) ==
    /\ close > reference
    /\ (100 * s.n * (close - reference)) * (100 * s.n * (close - reference))
          > m * m * s.v

\* The outcome of the trial of day k of the latest run had the multiplier
\* been m, with the reference index that was drawn for it.
CrossedUnder(k, m) ==
    AnyAbove(RemainingPrices(DayCloses(k), trials[k].first_half_idx),
             DayCloses(k)[trials[k].first_half_idx + 1], m, overall_stdev)

CountUnder(m) == Cardinality({ k \in TriedDays : CrossedUnder(k, m) })

Classified(c) == Cardinality({ k \in 1..Len(trials) : trials[k].cls = c })

ZeroDispersion == [v |-> 0, n |-> 1]

MonotoneMults == MultChoices \cup {100}

RECURSIVE FirstOccurrences(_)
FirstOccurrences(xs) ==
    IF xs = <<>> THEN <<>>
    ELSE LET front == FirstOccurrences(SubSeq(xs, 1, Len(xs) - 1))
             last == xs[Len(xs)]
         IN  IF \E i \in 1..Len(front) : front[i] = last
             THEN front ELSE Append(front, last)

LastCallOf(m) ==
    CHOOSE i \in 1..Len(calls) :
        /\ calls[i].multiplier = m
        /\ \A j \in (i + 1)..Len(calls) : calls[j].multiplier # m

---------------------------------------------------------------------------
(* Properties *)

\* C1: the percentage a run appends is 100 * (days crossed) / (days with at
\* least 2 bars): days with fewer than 2 bars are in neither the numerator nor
\* the denominator.
C1_RunPercentageOverEligibleDays ==
    (AfterRun /\ EligibleDays > 0) =>
        results[sim].num * EligibleDays = results[sim].den * 100 * count

\* C2: in the conditional script every eligible day of every run gets exactly
\* one of good, bad, skipped (and no other day gets any), so after k completed
\* runs the three counters add up to k * (number of eligible days).
C2_ClassificationsCoverEligibleDays ==
    variant = "conditional" =>
        /\ pc = "for_sim" =>
              good_trade_count + bad_trade_count + no_action_count
                  = sim * EligibleDays
        /\ \A k \in 1..Len(trials) :
              IF Eligible(k)
              THEN trials[k].cls \in {"good", "bad", "skipped"}
              ELSE trials[k].cls = "none"
        /\ AfterRun =>
              Classified("good") + Classified("bad") + Classified("skipped")
                  = EligibleDays

C2_Witness ==
    /\ variant = "conditional"
    /\ pc = "for_sim"
    /\ sim = NumSimulations
    /\ EligibleDays >= 1
    /\ good_trade_count >= 1
    /\ no_action_count >= 1

\* C3: for a chronologically ordered series with at least one bar the day
\* groups are a lossless partition: no group is empty, a group holds exactly
\* the bars of its date, the dates of the groups are distinct and increasing,
\* and the groups concatenated in date order are the series.
C3_LosslessPartition ==
    (pc \notin {"main", "group"} /\ data # <<>>) =>
        /\ \A k \in 1..Len(daily_groups) :
              /\ daily_groups[k].day_data # <<>>
              /\ \A i \in 1..Len(daily_groups[k].day_data) :
                    daily_groups[k].day_data[i].date = daily_groups[k].date
        /\ \A k \in 1..(Len(daily_groups) - 1) :
              daily_groups[k].date < daily_groups[k + 1].date
        /\ \A i \in 1..Len(data) :
              \E k \in 1..Len(daily_groups) : daily_groups[k].date = data[i].date
        /\ Flatten([k \in 1..Len(daily_groups) |-> daily_groups[k].day_data]) = data

C3_Witness ==
    /\ pc = "for_mult"
    /\ Len(daily_groups) = 2
    /\ Len(daily_groups[1].day_data) >= 2
    /\ Len(data) >= 3

\* C4: group_by_trading_day given a series with zero bars fails with an
\* EmptySeriesError, so nothing is ever computed on empty day groups.
C4_EmptySeriesFails ==
    /\ (data = <<>> /\ pc \notin {"main", "group"} /\ err # "No data downloaded")
          => (pc = "raised" /\ err = "EmptySeriesError")
    /\ pc = "for_sim" => daily_groups # <<>>

C6_ConditionalClassification ==
    variant = "conditional" =>
        /\ \A k \in TriedDays :
              LET skipped == DayCloses(k)[trials[k].first_half_idx + 1]
                                 > DayCloses(k)[1]
                  crossed == CrossedUnder(k, multipliers[mult_i])
              IN  /\ trials[k].cls = "skipped" <=> skipped
                  /\ trials[k].cls = "good" <=> (~skipped /\ crossed)
                  /\ trials[k].cls = "bad" <=> (~skipped /\ ~crossed)
        /\ AfterRun =>
              /\ count = Classified("good")
                         + Cardinality({ k \in TriedDays :
                                           /\ trials[k].cls = "skipped"
                                           /\ trials[k].crossed })
              /\ sim = 1 =>
                    /\ good_trade_count = Classified("good")
                    /\ bad_trade_count = Classified("bad")
                    /\ no_action_count = Classified("skipped")

C6_Witness ==
    /\ variant = "conditional"
    /\ AfterRun
    /\ count >= 1
    /\ good_trade_count = 0
    /\ \E k \in TriedDays : trials[k].cls = "skipped" /\ trials[k].crossed

C8_OneEstimatePerMultiplierInOrder ==
    /\ Len(calls) = Len(multipliers)
    /\ \A i \in 1..Len(calls) : calls[i].multiplier = multipliers[i]
    /\ pc = "done" =>
          /\ \A i \in 1..Len(calls) : calls[i].returned
          /\ DictKeys(analysis_results) = FirstOccurrences(multipliers)
          /\ \A i \in 1..Len(analysis_results) :
                analysis_results[i].value
                    = calls[LastCallOf(analysis_results[i].key)].value

C8_Witness ==
    /\ pc = "done"
    /\ Len(multipliers) = 2
    /\ multipliers[1] > multipliers[2]
    /\ Len(analysis_results) = 2
    /\ analysis_results[1].value # analysis_results[2].value

\* C9: in the conditional script, with at least one eligible day and at least
\* one run, good_total + bad_total > 0 when good_pct is computed, so the
\* division never raises.
C9_GoodPctDefined ==
    (variant = "conditional" /\ EligibleDays >= 1) =>
        /\ (pc = "for_sim" /\ sim = NumSimulations) =>
              good_trade_count + bad_trade_count > 0
        /\ ~(pc = "raised" /\ err = "ZeroDivisionError")

\* C10: every drawn reference index r has 0 <= r < n // 2 <= n - 1, so it is a
\* valid index with at least one bar after it; for n in {2, 3} r is 0, the
\* reference price is the start-of-day price and the trial is never skipped.
C10_ReferenceIndexInFirstHalf ==
    \A k \in TriedDays :
        LET n == Len(DayCloses(k))
            r == trials[k].first_half_idx
        IN  /\ 0 <= r
            /\ r < n \div 2
            /\ n \div 2 <= n - 1
            /\ Len(trials[k].remaining_prices) >= 1
            /\ Len(trials[k].remaining_prices) = n - 1 - r
            /\ n \in {2, 3} =>
                  /\ r = 0
                  /\ trials[k].first_half_price = trials[k].start_day_price
                  /\ trials[k].cls # "skipped"

C10_Witness ==
    \E k \in TriedDays :
        /\ variant = "conditional"
        /\ Len(DayCloses(k)) = 3
        /\ trials[k].cls = "bad"
        /\ DayCloses(k)[2] > DayCloses(k)[1]

=============================================================================
